---------------------------- MODULE Spec2Model ----------------------------
(* Model of the System V service class of system_v.py: the PID file, the   *)
(* launcher (one control verb at a time), the detached daemon processes it *)
(* forks, the status pipe between them and the signals stop() sends.       *)
EXTENDS Integers, Sequences, FiniteSets, TLC

(***************************************************************************)
(* Bounds of the model.                                                    *)
(***************************************************************************)
\* `retry` of service.__init__: SIGTERMs sent before SIGKILL.
retry == 2
\* The process table holds the pids FirstPid .. FirstPid + NumPids - 1.
FirstPid == 9
NumPids == 2
\* Messages the daemon writes to each message pipe before its status byte.
MaxMsgs == 1
\* Public addresses the host may have; record changes submitted in a run.
NumIps == 3
MaxChanges == 2

Pids == FirstPid .. (FirstPid + NumPids - 1)

(***************************************************************************)
(* Program constants.                                                      *)
(***************************************************************************)
exit_success   == 0
exit_no_action == 1
exit_failure   == 2

status_running              == 0
status_stopped_with_pidfile == 1
status_stopped              == 3
status_unknown              == 4

assert_running == 0
assert_stopped == 1
assert_none    == 2

(***************************************************************************)
(* Text of the PID file: a sequence of characters.                         *)
(***************************************************************************)
Digits == <<"0", "1", "2", "3", "4", "5", "6", "7", "8", "9">>
DigitSet == {Digits[k] : k \in 1..10}
Space == {" ", "\n", "\t"}

DigitVal(c) == (CHOOSE k \in 1..10 : Digits[k] = c) - 1

\* str(n) for an integer n: decimal digits, "-" in front of a negative one.
RECURSIVE StrNat(_)
StrNat(n) == IF n < 10 THEN <<Digits[n + 1]>>
             ELSE StrNat(n \div 10) \o <<Digits[(n % 10) + 1]>>

Str(n) == IF n < 0 THEN <<"-">> \o StrNat(0 - n) ELSE StrNat(n)

\* s.strip(): leading and trailing white space removed.
RECURSIVE LStrip(_)
LStrip(s) == IF s # <<>> /\ Head(s) \in Space THEN LStrip(Tail(s)) ELSE s

RECURSIVE RStrip(_)
RStrip(s) == IF s # <<>> /\ s[Len(s)] \in Space
             THEN RStrip(SubSeq(s, 1, Len(s) - 1)) ELSE s

Strip(s) == RStrip(LStrip(s))

RECURSIVE DigitsVal(_)
DigitsVal(s) == IF s = <<>> THEN 0
                ELSE 10 * DigitsVal(SubSeq(s, 1, Len(s) - 1)) + DigitVal(s[Len(s)])

AllDigits(s) == s # <<>> /\ \A k \in 1..Len(s) : s[k] \in DigitSet

\* int(text): an optional sign and at least one decimal digit, nothing else.
IntOk(s) == IF s # <<>> /\ Head(s) \in {"-", "+"} THEN AllDigits(Tail(s))
            ELSE AllDigits(s)

IntVal(s) == IF Head(s) = "-" THEN 0 - DigitsVal(Tail(s))
             ELSE IF Head(s) = "+" THEN DigitsVal(Tail(s))
             ELSE DigitsVal(s)

(***************************************************************************)
(* The PID file: whether it exists, its text, and whether open() for       *)
(* reading succeeds on it.                                                 *)
(***************************************************************************)
NoFile == [exists |-> FALSE, content |-> <<>>, readable |-> TRUE]
File(c) == [exists |-> TRUE, content |-> c, readable |-> TRUE]

\* Texts a PID file left by an earlier run may hold.
InitContents == {Str(p) : p \in Pids}
                \cup {<<" ">> \o Str(FirstPid) \o <<"\n">>}
                \cup {<<"0">>, <<"-">> \o Str(FirstPid), <<"x">>, <<>>}

InitFiles == {NoFile} \cup {File(c) : c \in InitContents}
             \cup {[exists |-> TRUE, content |-> Str(FirstPid), readable |-> FALSE]}


(***************************************************************************)
(* State.                                                                  *)
(***************************************************************************)
VARIABLES
    pidfile,      \* the PID file
    proc,         \* process table: "none", "daemon", "other" or "foreign"
    termPending,  \* SIGTERM delivered to the process and not yet handled
    dpc,          \* position of each daemon in make_daemon / start / run
    mid,          \* the child of the first fork is alive
    child,        \* pid of the daemon of the latest make_daemon, 0 if none
    statusPipe,   \* bytes written to status_put and not yet read
    failurePipe,  \* messages written to failure_put and not yet read
    warningPipe,  \* messages written to warning_put and not yet read
    verb,         \* the control verb the launcher is executing
    cpc,          \* position of the launcher
    assertion,    \* argument of the get_pid call in progress
    gpCaller,     \* the function get_pid returns to
    gpPid,        \* pid of get_pid / of its result
    gpStatus,     \* status of the result of get_pid
    i,            \* SIGTERMs sent by the loop of stop()
    killed,       \* local `killed` of stop()
    fin,          \* how the last verb ended: "-", "returned", "none", "killed"
    ret,          \* value the last verb returned
    log,          \* terminal output of the current verb, in order, with the
                  \* PID-file operations of the launcher and its child marked
    sigs,         \* os.kill calls of stop() in the current verb
    rcv,          \* status byte monitor_daemon read, "" if none
    spawned,      \* the first fork of the current verb succeeded
    initFail,     \* why the child of the current verb failed to initialise
    stopRet,      \* <<s>> once stop() returned s inside the current verb
    startRan,     \* start() was entered in the current verb
    startRet,     \* <<v>> once start() returned v inside the current verb
    entry,        \* the PID file when the current verb was invoked
    probed,       \* what the liveness probe of get_pid met: "", "live", "dead"
    started,      \* daemon whose start() returned success and that is alive
    lpc,          \* aws_dns.start: position of the sync loop, "off" if not run
    set_ip,       \* aws_dns.start: local set_ip
    cur_ip,       \* aws_dns.start: local cur_ip
    change_pending, \* aws_dns.start: local change_pending
    change_id,    \* aws_dns.start: local change_id
    public_ip,    \* the public address of the host
    changes       \* status of each record change submitted, by change id

fileVars == <<pidfile>>
procVars == <<proc, termPending, dpc, mid, child>>
pipeVars == <<statusPipe, failurePipe, warningPipe>>
ctlVars  == <<verb, cpc, assertion, gpCaller, gpPid, gpStatus, i, killed, fin, ret>>
histVars == <<log, sigs, rcv, spawned, initFail, stopRet, startRan, startRet, entry,
             probed, started>>
dnsVars  == <<lpc, set_ip, cur_ip, change_pending, change_id, public_ip, changes>>
svcVars == <<pidfile, proc, termPending, dpc, mid, child,
             statusPipe, failurePipe, warningPipe,
             verb, cpc, assertion, gpCaller, gpPid, gpStatus, i, killed, fin, ret,
             log, sigs, rcv, spawned, initFail, stopRet, startRan, startRet, entry,
             probed, started>>
vars == <<svcVars, dnsVars>>

\* Addresses, and the value of a local of aws_dns.start not yet assigned.
Ips == 1..NumIps
NoIp == 0
\* change_id: "" (no change), the Id of a change, or the pair that
\* update_record returns.
NoChange == [kind |-> "none", id |-> 0]
ChangeId(c) == [kind |-> "id", id |-> c]
ChangePair(c) == [kind |-> "pair", id |-> c]

\* The sync loop is not part of the run.
DnsOff ==
    /\ lpc = "off"
    /\ set_ip = NoIp
    /\ cur_ip = NoIp
    /\ change_pending = FALSE
    /\ change_id = NoChange
    /\ public_ip = 1
    /\ changes = <<>>

Verbs == {"start", "stop", "restart", "try_restart", "reload", "force_reload", "status"}

\* The service before it is first controlled; files and procs: the PID
\* files and the process tables it may meet.
SvcInit(files, procs) ==
    /\ pidfile \in files
    /\ proc \in procs
    /\ termPending = [p \in Pids |-> FALSE]
    /\ dpc = [p \in Pids |-> "none"]
    /\ mid = FALSE
    /\ child = 0
    /\ statusPipe = <<>>
    /\ failurePipe = 0
    /\ warningPipe = 0
    /\ verb = "none"
    /\ cpc = "idle"
    /\ assertion = assert_none
    /\ gpCaller = "none"
    /\ gpPid = -1
    /\ gpStatus = status_stopped
    /\ i = 0
    /\ killed = FALSE
    /\ fin = "-"
    /\ ret = 0
    /\ log = <<>>
    /\ sigs = <<>>
    /\ rcv = ""
    /\ spawned = FALSE
    /\ initFail = ""
    /\ stopRet = <<>>
    /\ startRan = FALSE
    /\ startRet = <<>>
    /\ entry = NoFile
    /\ probed = ""
    /\ started = 0

\* Processes that exist before the service is first controlled: none of them
\* is a daemon of this service.
Init ==
    /\ SvcInit(InitFiles, [Pids -> {"none", "other", "foreign"}])
    /\ DnsOff

(***************************************************************************)
(* os.kill(pid, sig) as the launcher calls it.                             *)
(***************************************************************************)
Alive(p) == p \in Pids /\ proc[p] # "none"

\* Processes of the table that pid addresses: pid > 0 one process, -1 every
\* process, pid < -1 the process group -pid (a daemon is in the group of the
\* child of the first fork, which is not in the table), 0 the group of the
\* caller, which holds no process of the table.
Targets(pid) ==
    IF pid > 0 THEN {p \in Pids : p = pid /\ proc[p] # "none"}
    ELSE IF pid = 0 THEN {}
    ELSE IF pid = -1 THEN {p \in Pids : proc[p] # "none"}
    ELSE {p \in Pids : p = 0 - pid /\ proc[p] \in {"other", "foreign"}}

\* Processes the caller is permitted to signal.
Delivered(pid) == {p \in Targets(pid) : proc[p] \in {"daemon", "other"}}

\* Result of os.kill: "ok", or the errno of the OSError raised.
KillRes(pid) ==
    IF pid = 0 \/ pid = -1 THEN "ok"
    ELSE IF Targets(pid) = {} THEN "ESRCH"
    ELSE IF Delivered(pid) = {} THEN "EPERM"
    ELSE "ok"

\* The signal reaches the caller itself (its own process group).
HitsCaller(pid) == pid = 0


(***************************************************************************)
(* Helpers of the launcher.                                                *)
(***************************************************************************)
\* remove_pidfile: the file is removed if it is there. os.remove is taken to
\* succeed on a file that exists; its OSError branch only logs a warning.
RemovePidfile(f) == IF f.exists THEN NoFile ELSE f

\* Marks in `log` of the PID-file operations: remove_pidfile called by the
\* launcher, the PID file written by the daemon, the write failing.
ClearMark == "pidfile: clear"
PersistMark == "pidfile: persist"
PersistFailedMark == "pidfile: persist failed"

\* logger.log_status: the status suffix of the action line.
StatusLine(s) == IF s THEN "[ OK ]" ELSE "[fail]"

\* get_pid logs a failed status when the state found contradicts `assertion`.
AssertLine(a, found) == IF a = found THEN <<StatusLine(FALSE)>> ELSE <<>>

\* Position of the launcher after get_pid returns to its caller.
After(caller) ==
    CASE caller = "start" -> "start_check"
      [] caller = "stop" -> "stop_check"
      [] caller = "try_restart" -> "try_check"
      [] OTHER -> "status_ret"

\* Variant of RestartStarts that takes exit_failure for exit_no_action.
RestartStarts_m(s) == s = exit_success \/ s = exit_failure

\* restart(): start() runs after stop() returned s.
RestartStarts(s) == s = exit_success \/ s = exit_no_action

\* Variant of AlreadyRunning that compares with the wrong status.
AlreadyRunning_m(status) == status = status_unknown

\* start(): the service is already running.
AlreadyRunning(status) == status = status_running

\* restart() returns what start() returned.
RestartResult(v) == v

\* The verb returns v to the caller of the launcher.
Finish(v) ==
    /\ cpc' = "idle"
    /\ fin' = "returned"
    /\ ret' = v

\* start() returns v: to the caller of the launcher, or to restart().
StartReturn(v) ==
    /\ startRet' = <<v>>
    /\ IF verb = "start" THEN Finish(v) ELSE Finish(RestartResult(v))

\* get_pid returns Status(pid, status) after printing `lines`.
GpReturn(pid, status, lines) ==
    /\ gpPid' = pid
    /\ gpStatus' = status
    /\ log' = log \o lines
    /\ cpc' = After(gpCaller)

(***************************************************************************)
(* The verbs are dispatched one at a time (dummy_service.py).              *)
(***************************************************************************)
\* Variant of Entry in which force_reload() is start(), not restart().
Entry_m(v) ==
    CASE v \in {"start", "force_reload"} -> "start_begin"
      [] v \in {"stop", "restart"} -> "stop_begin"
      [] v = "reload" -> "reload_body"
      [] OTHER -> "gp_isfile"

\* Where the method of the verb v begins: start() and stop() with their
\* action line, restart() and force_reload() (which is restart()) with
\* stop(), reload() with its body, try_restart() and status() with get_pid.
Entry(v) ==
    CASE v = "start" -> "start_begin"
      [] v \in {"stop", "restart", "force_reload"} -> "stop_begin"
      [] v = "reload" -> "reload_body"
      [] OTHER -> "gp_isfile"

Invoke(v) ==
    /\ cpc = "idle"
    /\ verb' = v
    /\ cpc' = Entry(v)
    /\ assertion' = assert_none
    /\ gpCaller' = IF v \in {"try_restart", "status"} THEN v ELSE "none"
    /\ gpPid' = -1
    /\ gpStatus' = status_stopped
    /\ i' = 0
    /\ killed' = FALSE
    /\ fin' = "-"
    /\ ret' = 0
    /\ log' = <<>>
    /\ sigs' = <<>>
    /\ rcv' = ""
    /\ spawned' = FALSE
    /\ initFail' = ""
    /\ stopRet' = <<>>
    /\ startRan' = FALSE
    /\ startRet' = <<>>
    /\ entry' = pidfile
    /\ probed' = ""
    /\ UNCHANGED <<pidfile, procVars, pipeVars, started>>
    /\ UNCHANGED dnsVars

(***************************************************************************)
(* get_pid(assertion), in three steps: isfile, open/read/int, os.kill.     *)
(***************************************************************************)
GetPidIsFile ==
    /\ cpc = "gp_isfile"
    /\ IF pidfile.exists
       THEN /\ cpc' = "gp_read"
            /\ UNCHANGED <<gpPid, gpStatus, log>>
       ELSE GpReturn(-1, status_stopped, AssertLine(assertion, assert_running))
    /\ UNCHANGED <<pidfile, procVars, pipeVars, verb, assertion, gpCaller, i, killed,
                   fin, ret, sigs, rcv, spawned, initFail, stopRet, startRan, startRet, entry,
                   probed, started>>
    /\ UNCHANGED dnsVars

GetPidRead ==
    /\ cpc = "gp_read"
    /\ IF ~pidfile.exists \/ ~pidfile.readable
       THEN \* IOError
            /\ GpReturn(-1, status_unknown,
                        AssertLine(assertion, assert_running)
                          \o <<"warning: Failed to read PID file">>)
            /\ UNCHANGED pidfile
       ELSE IF ~IntOk(Strip(pidfile.content))
       THEN \* ValueError
            /\ GpReturn(-1, status_stopped_with_pidfile,
                        AssertLine(assertion, assert_running)
                          \o <<"warning: Invalid PID in PID file", ClearMark>>)
            /\ pidfile' = RemovePidfile(pidfile)
       ELSE /\ gpPid' = IntVal(Strip(pidfile.content))
            /\ cpc' = "gp_probe"
            /\ UNCHANGED <<pidfile, gpStatus, log>>
    /\ UNCHANGED <<procVars, pipeVars, verb, assertion, gpCaller, i, killed,
                   fin, ret, sigs, rcv, spawned, initFail, stopRet, startRan, startRet, entry,
                   probed, started>>
    /\ UNCHANGED dnsVars

GetPidProbe ==
    /\ cpc = "gp_probe"
    /\ probed' = IF Delivered(gpPid) # {} THEN "live" ELSE "dead"
    /\ IF KillRes(gpPid) = "ok"
       THEN /\ GpReturn(gpPid, status_running, AssertLine(assertion, assert_stopped))
            /\ UNCHANGED pidfile
       ELSE /\ GpReturn(-1, status_stopped,
                        AssertLine(assertion, assert_running) \o <<ClearMark>>)
            /\ pidfile' = RemovePidfile(pidfile)
    /\ UNCHANGED <<procVars, pipeVars, verb, assertion, gpCaller, i, killed,
                   fin, ret, sigs, rcv, spawned, initFail, stopRet, startRan, startRet, entry,
                   started>>
    /\ UNCHANGED dnsVars

(***************************************************************************)
(* status(), try_restart(), reload().                                      *)
(***************************************************************************)
StatusReturn ==
    /\ cpc = "status_ret"
    /\ Finish(gpStatus)
    /\ UNCHANGED <<pidfile, procVars, pipeVars, verb, assertion, gpCaller, gpPid,
                   gpStatus, i, killed, histVars>>
    /\ UNCHANGED dnsVars

TryRestartCheck ==
    /\ cpc = "try_check"
    /\ IF gpStatus # status_running
       THEN Finish(exit_no_action)
       ELSE /\ cpc' = "stop_begin"
            /\ UNCHANGED <<fin, ret>>
    /\ UNCHANGED <<pidfile, procVars, pipeVars, verb, assertion, gpCaller, gpPid,
                   gpStatus, i, killed, histVars>>
    /\ UNCHANGED dnsVars

\* reload() is `pass`: it returns None.
Reload ==
    /\ cpc = "reload_body"
    /\ cpc' = "idle"
    /\ fin' = "none"
    /\ UNCHANGED <<pidfile, procVars, pipeVars, verb, assertion, gpCaller, gpPid,
                   gpStatus, i, killed, ret, histVars>>
    /\ UNCHANGED dnsVars


(***************************************************************************)
(* start(), make_daemon() and monitor_daemon() in the launcher.            *)
(***************************************************************************)
\* Variant of StartResult that returns a status code for a failed start.
StartResult_m(success) == IF success THEN exit_success ELSE status_stopped

\* start(): what the launcher returns for the result of make_daemon.
StartResult(success) == IF success THEN exit_success ELSE exit_failure

\* monitor_daemon(): its return value once the status byte was read.
MonitorResult(status) == TRUE

\* n detail lines of one kind.
Lines(n, line) == [k \in 1..n |-> line]

StartBegin ==
    /\ cpc = "start_begin"
    /\ log' = Append(log, "action: Starting")
    /\ startRan' = TRUE
    /\ assertion' = assert_stopped
    /\ gpCaller' = "start"
    /\ cpc' = "gp_isfile"
    /\ UNCHANGED <<pidfile, procVars, pipeVars, verb, gpPid, gpStatus, i, killed,
                   fin, ret, sigs, rcv, spawned, initFail, stopRet, startRet, entry,
                   probed, started>>
    /\ UNCHANGED dnsVars

StartCheck ==
    /\ cpc = "start_check"
    /\ IF AlreadyRunning(gpStatus)
       THEN StartReturn(exit_no_action)
       ELSE /\ cpc' = "make_daemon"
            /\ UNCHANGED <<fin, ret, startRet>>
    /\ UNCHANGED <<pidfile, procVars, pipeVars, verb, assertion, gpCaller, gpPid,
                   gpStatus, i, killed, log, sigs, rcv, spawned, initFail, stopRet,
                   startRan, entry, probed, started>>
    /\ UNCHANGED dnsVars

\* The three pipes are created and the process forks; ok: whether os.fork
\* succeeds.
MakeDaemon(ok) ==
    /\ cpc = "make_daemon"
    /\ statusPipe' = <<>>
    /\ failurePipe' = 0
    /\ warningPipe' = 0
    /\ child' = 0
    /\ IF ok
       THEN /\ mid' = TRUE
            /\ spawned' = TRUE
            /\ cpc' = "monitor"
            /\ UNCHANGED <<fin, ret, log, initFail, startRet>>
       ELSE /\ log' = log \o <<StatusLine(FALSE), "failure: First fork failed">>
            /\ initFail' = "fork1"
            /\ StartReturn(StartResult(FALSE))
            /\ UNCHANGED <<mid, spawned>>
    /\ UNCHANGED <<pidfile, proc, termPending, dpc, verb, assertion, gpCaller, gpPid,
                   gpStatus, i, killed, sigs, rcv, stopRet, startRan, entry, probed,
                   started>>
    /\ UNCHANGED dnsVars

\* The launcher reads the status byte, then the messages that were readable.
MonitorDaemon ==
    /\ cpc = "monitor"
    /\ statusPipe # <<>>
    /\ LET b == Head(statusPipe)
           status == IntVal(<<b>>)
       IN /\ rcv' = b
          /\ log' = log \o <<StatusLine(status = exit_success)>>
                        \o Lines(failurePipe, "failure: daemon")
                        \o Lines(warningPipe, "warning: daemon")
          /\ StartReturn(StartResult(MonitorResult(status)))
          /\ started' = IF StartResult(MonitorResult(status)) = exit_success
                           /\ child \in Pids /\ proc[child] = "daemon"
                        THEN child ELSE started
    /\ statusPipe' = Tail(statusPipe)
    /\ failurePipe' = 0
    /\ warningPipe' = 0
    /\ UNCHANGED <<pidfile, procVars, verb, assertion, gpCaller, gpPid, gpStatus, i,
                   killed, sigs, spawned, initFail, stopRet, startRan, entry, probed>>
    /\ UNCHANGED dnsVars

(***************************************************************************)
(* stop() and restart().                                                   *)
(***************************************************************************)
\* stop() returns s: to the caller of the launcher, or to restart().
StopReturn(s) ==
    /\ stopRet' = <<s>>
    /\ IF verb = "stop" THEN Finish(s)
       ELSE IF RestartStarts(s)
            THEN /\ cpc' = "start_begin"
                 /\ UNCHANGED <<fin, ret>>
            ELSE Finish(exit_failure)

StopBegin ==
    /\ cpc = "stop_begin"
    /\ log' = Append(log, "action: Stopping")
    /\ assertion' = assert_running
    /\ gpCaller' = "stop"
    /\ cpc' = "gp_isfile"
    /\ UNCHANGED <<pidfile, procVars, pipeVars, verb, gpPid, gpStatus, i, killed,
                   fin, ret, sigs, rcv, spawned, initFail, stopRet, startRan, startRet, entry,
                   probed, started>>
    /\ UNCHANGED dnsVars

\* Variant of StopProceeds that takes status_stopped for status_unknown.
StopProceeds_m(status) == status = status_running \/ status = status_stopped

\* stop(): signals are sent after get_pid returned this status.
StopProceeds(status) == status = status_running \/ status = status_unknown

StopCheck ==
    /\ cpc = "stop_check"
    /\ IF ~StopProceeds(gpStatus)
       THEN /\ StopReturn(exit_no_action)
            /\ UNCHANGED <<i, killed>>
       ELSE /\ cpc' = "stop_loop"
            /\ i' = 0
            /\ killed' = FALSE
            /\ UNCHANGED <<fin, ret, stopRet>>
    /\ UNCHANGED <<pidfile, procVars, pipeVars, verb, assertion, gpCaller, gpPid,
                   gpStatus, log, sigs, rcv, spawned, initFail, startRan, startRet, entry,
                   probed, started>>
    /\ UNCHANGED dnsVars

\* Variant of TermBudget with one SIGTERM too many.
TermBudget_m == retry + 1

\* Number of SIGTERMs of the loop of stop().
TermBudget == retry

\* Variant of StopTail that removes the PID file before it logs the status.
StopTail_m(res) ==
    IF res = "EPERM"
    THEN /\ log' = log \o <<ClearMark, StatusLine(FALSE),
                            "failure: Unable to stop service">>
         /\ pidfile' = RemovePidfile(pidfile)
         /\ StopReturn(exit_failure)
    ELSE /\ log' = log \o <<ClearMark, StatusLine(TRUE)>>
                       \o (IF killed' THEN <<"warning: Service terminated via SIGKILL">>
                           ELSE <<>>)
         /\ pidfile' = RemovePidfile(pidfile)
         /\ StopReturn(exit_success)

\* The end of stop() after the signals: the except clause on an error other
\* than "No such process", the success path otherwise.
StopTail(res) ==
    IF res = "EPERM"
    THEN /\ log' = log \o <<StatusLine(FALSE), "failure: Unable to stop service",
                            ClearMark>>
         /\ pidfile' = RemovePidfile(pidfile)
         /\ StopReturn(exit_failure)
    ELSE /\ log' = log \o <<StatusLine(TRUE)>>
                       \o (IF killed' THEN <<"warning: Service terminated via SIGKILL">>
                           ELSE <<>>)
                       \o <<ClearMark>>
         /\ pidfile' = RemovePidfile(pidfile)
         /\ StopReturn(exit_success)

\* Variant of NoSuchProcess that takes every OSError for a missing process.
NoSuchProcess_m(res) == res # "ok"

\* Variant of NoSuchProcess that takes a missing process for a failure.
NoSuchProcess_f(res) == FALSE

\* The except clause of stop(): the error says "No such process".
NoSuchProcess(res) == res = "ESRCH"

\* One os.kill of stop(): SIGTERM while i < retry, SIGKILL after the loop.
\* An OSError leaves the try block: for "No such process" to the success
\* path after it, for any other error to the rest of the except clause.
StopSignal ==
    /\ cpc = "stop_loop"
    /\ LET res == KillRes(gpPid)
           sig == IF i < TermBudget THEN "TERM" ELSE "KILL"
       IN /\ sigs' = Append(sigs, [sig |-> sig, pid |-> gpPid, res |-> res])
          /\ killed' = (sig = "KILL")
          /\ IF res = "ok" /\ HitsCaller(gpPid)
             THEN \* the launcher is in the group it signals: it dies
                  /\ cpc' = "idle"
                  /\ fin' = "killed"
                  /\ UNCHANGED <<proc, termPending, dpc, started, i, ret, log,
                                 pidfile, stopRet>>
             ELSE IF sig = "TERM" /\ res = "ok"
             THEN /\ termPending' = [p \in Pids |->
                                       termPending[p] \/ p \in Delivered(gpPid)]
                  /\ i' = i + 1
                  /\ UNCHANGED <<proc, dpc, started, cpc, fin, ret, log, pidfile,
                                 stopRet>>
             ELSE /\ IF res = "ok"
                     THEN /\ proc' = [p \in Pids |->
                                        IF p \in Delivered(gpPid) THEN "none"
                                        ELSE proc[p]]
                          /\ dpc' = [p \in Pids |->
                                        IF p \in Delivered(gpPid) THEN "none"
                                        ELSE dpc[p]]
                          /\ termPending' = [p \in Pids |->
                                        termPending[p] /\ p \notin Delivered(gpPid)]
                          /\ started' = IF started \in Delivered(gpPid) THEN 0
                                        ELSE started
                     ELSE UNCHANGED <<proc, dpc, termPending, started>>
                  /\ cpc' = IF res = "ok" \/ NoSuchProcess(res) THEN "stop_done"
                            ELSE "stop_failed"
                  /\ UNCHANGED <<i, fin, ret, log, pidfile, stopRet>>
    /\ UNCHANGED <<mid, child, pipeVars, verb, assertion, gpCaller, gpPid, gpStatus,
                   rcv, spawned, initFail, startRan, startRet, entry, probed>>
    /\ UNCHANGED dnsVars

\* stop() after its signals: it logs the outcome, removes the PID file and
\* returns.
StopFinish ==
    /\ cpc \in {"stop_failed", "stop_done"}
    /\ killed' = killed
    /\ StopTail(IF cpc = "stop_failed" THEN "EPERM" ELSE "ok")
    /\ UNCHANGED <<procVars, pipeVars, verb, assertion, gpCaller, gpPid, gpStatus,
                   i, sigs, rcv, spawned, initFail, startRan, startRet, entry,
                   probed, started>>
    /\ UNCHANGED dnsVars


(***************************************************************************)
(* The child of the first fork, and the daemon: make_daemon after the      *)
(* forks, start() in the child, run() and terminate() of the subclass.     *)
(***************************************************************************)
\* Variant of Die for a daemon that registered no exit hook.
Die_m(p, atexit) ==
    /\ proc' = [proc EXCEPT ![p] = "none"]
    /\ dpc' = [dpc EXCEPT ![p] = "none"]
    /\ termPending' = [termPending EXCEPT ![p] = FALSE]
    /\ started' = IF started = p THEN 0 ELSE started
    /\ pidfile' = pidfile

\* The process p is gone; atexit: whether its exit hooks run.
Die(p, atexit) ==
    /\ proc' = [proc EXCEPT ![p] = "none"]
    /\ dpc' = [dpc EXCEPT ![p] = "none"]
    /\ termPending' = [termPending EXCEPT ![p] = FALSE]
    /\ started' = IF started = p THEN 0 ELSE started
    /\ pidfile' = IF atexit THEN RemovePidfile(pidfile) ELSE pidfile

\* chdir, setsid, umask and the second fork. The fork succeeds: the daemon
\* is p. The fork fails: failure is printed and start() exits with 1.
SecondFork(ok, p) ==
    /\ mid
    /\ mid' = FALSE
    /\ IF ok
       THEN /\ proc[p] = "none"
            /\ proc' = [proc EXCEPT ![p] = "daemon"]
            /\ dpc' = [dpc EXCEPT ![p] = "forked"]
            /\ child' = p
            /\ UNCHANGED <<log, initFail>>
       ELSE /\ p = FirstPid
            /\ log' = log \o <<StatusLine(FALSE), "failure: Second fork failed">>
            /\ initFail' = "fork2"
            /\ UNCHANGED <<proc, dpc, child>>
    /\ UNCHANGED <<pidfile, termPending, pipeVars, ctlVars, sigs, rcv, spawned,
                   stopRet, startRan, startRet, entry, probed, started>>
    /\ UNCHANGED dnsVars

\* signal.signal(SIGTERM, self.terminate); atexit.register(self.remove_pidfile)
RegisterHandlers(p) ==
    /\ proc[p] = "daemon" /\ dpc[p] = "forked"
    /\ dpc' = [dpc EXCEPT ![p] = "registered"]
    /\ UNCHANGED <<pidfile, proc, termPending, mid, child, pipeVars, ctlVars, histVars>>
    /\ UNCHANGED dnsVars

\* Variant of PidText that writes another process's pid.
PidText_m(p) == Str(p + 1)

\* str(os.getpid()) in the daemon p.
PidText(p) == Str(p)

\* Variant of PersistReady: the PID is written before the handlers are
\* registered, which then are never registered.
PersistReady_m(pc) == pc = "forked"

\* make_daemon writes the PID file right after it registered the handlers.
PersistReady(pc) == pc = "registered"

\* open(pidfile, "w+") and write: "ok", "open" (open fails, the file is as
\* it was) or "write" (the file was truncated, the write fails).
WritePid(p, res) ==
    /\ proc[p] = "daemon" /\ PersistReady(dpc[p])
    /\ pidfile.exists /\ ~pidfile.readable => res = "open"
    /\ IF res = "ok"
       THEN /\ pidfile' = File(PidText(p))
            /\ dpc' = [dpc EXCEPT ![p] = "persisted"]
            /\ log' = Append(log, PersistMark)
            /\ UNCHANGED initFail
       ELSE /\ pidfile' = IF res = "write" THEN File(<<>>) ELSE pidfile
            /\ dpc' = [dpc EXCEPT ![p] = "init_failed"]
            /\ log' = log \o <<PersistFailedMark, StatusLine(FALSE),
                               "failure: Failed to write to PID file">>
            /\ initFail' = "persist"
    /\ UNCHANGED <<proc, termPending, mid, child, pipeVars, ctlVars, sigs, rcv,
                   spawned, stopRet, startRan, startRet, entry, probed, started>>
    /\ UNCHANGED dnsVars

\* The standard streams are redirected to /dev/null; then start() calls run().
RedirectStreams(p, ok) ==
    /\ proc[p] = "daemon" /\ dpc[p] = "persisted"
    /\ IF ok
       THEN /\ dpc' = [dpc EXCEPT ![p] = "run"]
            /\ UNCHANGED <<log, initFail>>
       ELSE /\ dpc' = [dpc EXCEPT ![p] = "init_failed"]
            /\ log' = log \o <<StatusLine(FALSE), "failure: Failed to open /dev/null">>
            /\ initFail' = "devnull"
    /\ UNCHANGED <<pidfile, proc, termPending, mid, child, pipeVars, ctlVars, sigs,
                   rcv, spawned, stopRet, startRan, startRet, entry, probed, started>>
    /\ UNCHANGED dnsVars

\* start() in the child: make_daemon returned False, sys.exit(1).
InitFailedExit(p) ==
    /\ proc[p] = "daemon" /\ dpc[p] = "init_failed"
    /\ Die(p, TRUE)
    /\ UNCHANGED <<mid, child, pipeVars, ctlVars, log, sigs, rcv, spawned, initFail,
                   stopRet, startRan, startRet, entry, probed>>
    /\ UNCHANGED dnsVars

\* service.log_status(success) in the daemon: one byte on the status pipe.
StatusByte(success) == IF success THEN "0" ELSE "1"

\* run() logs a failure or a warning before it reports its status.
RunLog(p, kind) ==
    /\ proc[p] = "daemon" /\ dpc[p] = "run" /\ p = child
    /\ IF kind = "failure"
       THEN /\ failurePipe < MaxMsgs
            /\ failurePipe' = failurePipe + 1
            /\ UNCHANGED warningPipe
       ELSE /\ warningPipe < MaxMsgs
            /\ warningPipe' = warningPipe + 1
            /\ UNCHANGED failurePipe
    /\ UNCHANGED <<pidfile, procVars, statusPipe, ctlVars, histVars>>
    /\ UNCHANGED dnsVars

\* run() reports the initialization status.
RunReport(p, success) ==
    /\ proc[p] = "daemon" /\ dpc[p] = "run" /\ p = child
    /\ statusPipe' = Append(statusPipe, StatusByte(success))
    /\ dpc' = [dpc EXCEPT ![p] = "reported"]
    /\ UNCHANGED <<pidfile, proc, termPending, mid, child, failurePipe, warningPipe,
                   ctlVars, histVars>>
    /\ UNCHANGED dnsVars

\* run() returns, raises or calls sys.exit: the exit hook runs.
DaemonExit(p) ==
    /\ proc[p] = "daemon" /\ dpc[p] \in {"run", "reported"}
    /\ Die(p, TRUE)
    /\ UNCHANGED <<mid, child, pipeVars, ctlVars, log, sigs, rcv, spawned, initFail,
                   stopRet, startRan, startRet, entry, probed>>
    /\ UNCHANGED dnsVars

\* A pending SIGTERM is handled. A daemon with its handler installed runs
\* terminate(), which exits (the exit hook runs) or returns; any other
\* process dies of the signal or ignores it.
HandleTerm(p, exits) ==
    /\ proc[p] \in {"daemon", "other"} /\ termPending[p]
    /\ proc[p] = "daemon" /\ dpc[p] = "forked" => exits
    /\ IF exits
       THEN Die(p, proc[p] = "daemon" /\ dpc[p] # "forked")
       ELSE /\ termPending' = [termPending EXCEPT ![p] = FALSE]
            /\ UNCHANGED <<pidfile, proc, dpc, started>>
    /\ UNCHANGED <<mid, child, pipeVars, ctlVars, log, sigs, rcv, spawned, initFail,
                   stopRet, startRan, startRet, entry, probed>>
    /\ UNCHANGED dnsVars

(***************************************************************************)
(* Other processes of the system come and go; a pid is reused.             *)
(***************************************************************************)
ProcSpawn(p, kind) ==
    /\ proc[p] = "none"
    /\ proc' = [proc EXCEPT ![p] = kind]
    /\ UNCHANGED <<pidfile, termPending, dpc, mid, child, pipeVars, ctlVars, histVars>>
    /\ UNCHANGED dnsVars

ProcExit(p) ==
    /\ proc[p] \in {"other", "foreign"}
    /\ Die(p, FALSE)
    /\ UNCHANGED <<mid, child, pipeVars, ctlVars, log, sigs, rcv, spawned, initFail,
                   stopRet, startRan, startRet, entry, probed>>
    /\ UNCHANGED dnsVars

(***************************************************************************)
(* Specification.                                                          *)
(***************************************************************************)
Launcher ==
    \/ \E v \in Verbs : Invoke(v)
    \/ GetPidIsFile
    \/ GetPidRead
    \/ GetPidProbe
    \/ StatusReturn
    \/ TryRestartCheck
    \/ Reload
    \/ StartBegin
    \/ StartCheck
    \/ \E ok \in BOOLEAN : MakeDaemon(ok)
    \/ MonitorDaemon
    \/ StopBegin
    \/ StopCheck
    \/ StopSignal
    \/ StopFinish

Daemon ==
    \/ \E ok \in BOOLEAN, p \in Pids : SecondFork(ok, p)
    \/ \E p \in Pids : RegisterHandlers(p)
    \/ \E p \in Pids, res \in {"ok", "open", "write"} : WritePid(p, res)
    \/ \E p \in Pids, ok \in BOOLEAN : RedirectStreams(p, ok)
    \/ \E p \in Pids : InitFailedExit(p)
    \/ \E p \in Pids, kind \in {"failure", "warning"} : RunLog(p, kind)
    \/ \E p \in Pids, success \in BOOLEAN : RunReport(p, success)
    \/ \E p \in Pids : DaemonExit(p)
    \/ \E p \in Pids, exits \in BOOLEAN : HandleTerm(p, exits)

Environment ==
    \/ \E p \in Pids, kind \in {"other", "foreign"} : ProcSpawn(p, kind)
    \/ \E p \in Pids : ProcExit(p)

Next == Launcher \/ Daemon \/ Environment

Spec == Init /\ [][Next]_vars


\* The launcher and the initialising child are processes the system keeps
\* scheduling; run() of the subclass owes no step.
FairSpec ==
    /\ Spec
    /\ WF_vars(Launcher)
    /\ WF_vars(\E ok \in BOOLEAN, p \in Pids : SecondFork(ok, p))
    /\ WF_vars(\E p \in Pids : RegisterHandlers(p))
    /\ WF_vars(\E p \in Pids, res \in {"ok", "open", "write"} : WritePid(p, res))
    /\ WF_vars(\E p \in Pids, ok \in BOOLEAN : RedirectStreams(p, ok))
    /\ WF_vars(\E p \in Pids : InitFailedExit(p))

(***************************************************************************)
(* The service where open() of the PID file may start to fail for the      *)
(* launcher while the service runs (the IOError of get_pid): the file's    *)
(* permissions were changed, or the launcher is run by another user.       *)
(***************************************************************************)
ReadFault ==
    /\ pidfile.exists /\ pidfile.readable
    /\ pidfile' = [pidfile EXCEPT !.readable = FALSE]
    /\ UNCHANGED <<procVars, pipeVars, ctlVars, histVars, dnsVars>>

FaultNext == Next \/ ReadFault

FaultSpec == Init /\ [][FaultNext]_vars

(***************************************************************************)
(* The sync loop of aws_dns.py (start), run by the daemon after it         *)
(* reported its status; Route 53 and the public address are its            *)
(* environment. It is checked on its own, the service held still.          *)
(***************************************************************************)
\* change_committed(change_id): what it returns for the Status of the change.
ChangeCommitted(status) == status = "PENDING"

\* get_status in the first loop of start(); ok: no call raised; r: the
\* address the record holds (get_set_ip).
GetStatus(ok, r) ==
    /\ lpc = "init"
    /\ IF ~ok
       THEN UNCHANGED <<lpc, set_ip, cur_ip, change_pending, change_id, changes>>
       ELSE /\ set_ip' = r
            /\ cur_ip' = public_ip
            /\ IF r # public_ip
               THEN /\ changes' = Append(changes, "PENDING")
                    /\ change_id' = ChangeId(Len(changes) + 1)
                    /\ change_pending' = TRUE
               ELSE /\ change_id' = NoChange
                    /\ change_pending' = FALSE
                    /\ UNCHANGED changes
            /\ lpc' = "sleep"
    /\ UNCHANGED <<public_ip, svcVars>>

\* time.sleep(recheck), then the test of the pending change; ok: get-change
\* did not fail. A change_id that is a pair is no argument of a command:
\* Popen raises.
Recheck(ok) ==
    /\ lpc = "sleep"
    /\ IF ~change_pending
       THEN /\ lpc' = "get_public_ip"
            /\ UNCHANGED <<set_ip, change_pending>>
       ELSE IF ~ok \/ change_id.kind # "id"
       THEN UNCHANGED <<lpc, set_ip, change_pending>>
       ELSE IF ~ChangeCommitted(changes[change_id.id])
       THEN UNCHANGED <<lpc, set_ip, change_pending>>
       ELSE /\ change_pending' = FALSE
            /\ set_ip' = cur_ip
            /\ lpc' = "get_public_ip"
    /\ UNCHANGED <<cur_ip, change_id, public_ip, changes, svcVars>>

GetPublicIp(ok) ==
    /\ lpc = "get_public_ip"
    /\ IF ok
       THEN /\ cur_ip' = public_ip
            /\ lpc' = "update_record"
       ELSE /\ lpc' = "sleep"
            /\ UNCHANGED cur_ip
    /\ UNCHANGED <<set_ip, change_pending, change_id, public_ip, changes, svcVars>>

\* The update of the record when the addresses differ; ok: update_record
\* did not raise. change_id is assigned all that update_record returns.
UpdateRecord(ok) ==
    /\ lpc = "update_record"
    /\ IF set_ip # cur_ip /\ ok
       THEN /\ Len(changes) < MaxChanges
            /\ changes' = Append(changes, "PENDING")
            /\ change_id' = ChangePair(Len(changes) + 1)
            /\ change_pending' = TRUE
       ELSE UNCHANGED <<changes, change_id, change_pending>>
    /\ lpc' = "sleep"
    /\ UNCHANGED <<set_ip, cur_ip, public_ip, svcVars>>

\* Route 53 commits a change.
Commit(c) ==
    /\ c \in 1..Len(changes) /\ changes[c] = "PENDING"
    /\ changes' = [changes EXCEPT ![c] = "INSYNC"]
    /\ UNCHANGED <<lpc, set_ip, cur_ip, change_pending, change_id, public_ip, svcVars>>

\* The host gets another public address.
IpChange(ip) ==
    /\ ip # public_ip
    /\ public_ip' = ip
    /\ UNCHANGED <<lpc, set_ip, cur_ip, change_pending, change_id, changes, svcVars>>

DnsInit ==
    /\ SvcInit({NoFile}, {[p \in Pids |-> "none"]})
    /\ lpc = "init"
    /\ set_ip = NoIp
    /\ cur_ip = NoIp
    /\ change_pending = FALSE
    /\ change_id = NoChange
    /\ public_ip \in Ips
    /\ changes = <<>>

DnsNext ==
    \/ \E ok \in BOOLEAN, r \in Ips : GetStatus(ok, r)
    \/ \E ok \in BOOLEAN : Recheck(ok)
    \/ \E ok \in BOOLEAN : GetPublicIp(ok)
    \/ \E ok \in BOOLEAN : UpdateRecord(ok)
    \/ \E c \in 1..MaxChanges : Commit(c)
    \/ \E ip \in Ips : IpChange(ip)

DnsSpec == DnsInit /\ [][DnsNext]_vars

(***************************************************************************)
(* Properties.                                                             *)
(***************************************************************************)
Returned == cpc = "idle" /\ fin = "returned"
ChildAlive == child \in Pids /\ proc[child] = "daemon"
Has(seq, x) == \E k \in 1..Len(seq) : seq[k] = x

\* C1: when the daemon reports failure on the status pipe, start() returns
\* exit_failure and the PID file is absent once that daemon has exited;
\* start() returns exit_success only when the byte read decodes to success.
C1_FailureByteFailsStart ==
    (verb = "start" /\ Returned /\ rcv # "") =>
        /\ (rcv = StatusByte(FALSE) => ret = exit_failure)
        /\ (ret = exit_success => rcv = StatusByte(TRUE))
        /\ (rcv = StatusByte(FALSE) /\ ~ChildAlive => ~pidfile.exists)

\* C2: a launcher waiting for a daemon that is in run() and writes no
\* status does not wait for ever: unless a status byte is written, start()
\* returns exit_failure after a failed status line.
C2_WaitIsBounded ==
    (cpc = "monitor" /\ statusPipe = <<>> /\ ChildAlive /\ dpc[child] = "run")
        ~> (\/ statusPipe # <<>>
            \/ Returned /\ ret = exit_failure /\ Has(log, StatusLine(FALSE)))

\* C3: when writing the PID file fails in the daemon, run() is never
\* entered and, once that daemon has exited, the failure byte has been
\* written to the status pipe for the launcher to read.
C3_PersistFailureReported ==
    (initFail = "persist" /\ child \in Pids) =>
        /\ dpc[child] \notin {"run", "reported"}
        /\ (dpc[child] # "init_failed" =>
               rcv = StatusByte(FALSE) \/ Has(statusPipe, StatusByte(FALSE)))

C5_StartedIsRecorded ==
    /\ started # 0 =>
          /\ proc[started] = "daemon"
          /\ pidfile.exists /\ pidfile.content = Str(started)
          /\ (verb = "status" /\ Returned => ret = status_running)
    /\ (ChildAlive /\ dpc[child] \in {"run", "reported"}) =>
          (pidfile.exists /\ pidfile.content = Str(child))

C5_Witness ==
    /\ started # 0 /\ verb = "status" /\ Returned /\ ret = status_running
    /\ pidfile = File(Str(started)) /\ dpc[started] = "reported"

\* C6: when stop() found the service running and none of its signals met a
\* missing process, it sent SIGTERM `retry` times, then SIGKILL, returned
\* exit_success, logged the SIGKILL warning and removed the PID file.
C6_EscalatesToSigkill ==
    (/\ verb = "stop" /\ Returned
     /\ gpStatus = status_running /\ gpPid > 0
     /\ \A k \in 1..Len(sigs) : sigs[k].res = "ok") =>
        /\ Len(sigs) = retry + 1
        /\ \A k \in 1..retry : sigs[k].sig = "TERM" /\ sigs[k].pid = gpPid
        /\ sigs[retry + 1].sig = "KILL" /\ sigs[retry + 1].pid = gpPid
        /\ ret = exit_success
        /\ Has(log, "warning: Service terminated via SIGKILL")
        /\ ~pidfile.exists

C6_Witness ==
    /\ verb = "stop" /\ Returned /\ gpStatus = status_running /\ gpPid > 0
    /\ Len(sigs) = retry + 1
    /\ \A k \in 1..Len(sigs) : sigs[k].res = "ok"
    /\ ret = exit_success /\ ~pidfile.exists /\ entry.exists

\* C7: stop() invoked with no PID file sends no signal, leaves the file
\* absent and returns exit_no_action.
C7_StopWithoutPidfile ==
    (verb = "stop" /\ ~entry.exists) =>
        /\ sigs = <<>>
        /\ ~pidfile.exists
        /\ cpc \in {"stop_begin", "gp_isfile", "stop_check", "idle"}
        /\ (cpc = "idle" => fin = "returned" /\ ret = exit_no_action)

C7_Witness ==
    /\ verb = "stop" /\ ~entry.exists /\ Returned /\ ret = exit_no_action
    /\ sigs = <<>> /\ ~pidfile.exists

\* C8: restart() enters start() exactly when stop() returned exit_success
\* or exit_no_action and then returns what start() returned; when stop()
\* returned exit_failure it returns exit_failure without entering start()
\* or forking.
C8_RestartIsStopThenStart ==
    verb = "restart" =>
        /\ startRan => stopRet \in {<<exit_success>>, <<exit_no_action>>}
        /\ stopRet \in {<<exit_success>>, <<exit_no_action>>} =>
              startRan \/ cpc = "start_begin"
        /\ stopRet = <<exit_failure>> =>
              ~startRan /\ ~spawned /\ Returned /\ ret = exit_failure
        /\ (Returned /\ startRan) => startRet = <<ret>>
        /\ Returned => stopRet # <<>>

C8_Witness ==
    /\ verb = "restart" /\ Returned /\ stopRet = <<exit_failure>>
    /\ ret = exit_failure /\ ~startRan

\* The other branch of restart(): stop() and start() both succeeded.
C8_WitnessStart ==
    /\ verb = "restart" /\ Returned /\ stopRet = <<exit_success>>
    /\ startRet = <<exit_success>> /\ ret = exit_success

\* C9: for every text of the PID file that is not a valid positive integer,
\* get_pid returns (-1, status_stopped_with_pidfile) and removes the file.
ValidPositive(text) == IntOk(Strip(text)) /\ IntVal(Strip(text)) > 0

C9_InvalidTextIsCorrupt ==
    (/\ verb = "status" /\ Returned
     /\ entry.exists /\ entry.readable /\ ~ValidPositive(entry.content)) =>
        /\ ret = status_stopped_with_pidfile
        /\ gpPid = -1
        /\ ~pidfile.exists

\* C10: when a signal of stop() fails with an error other than "no such
\* process", stop() returns exit_failure and the PID file stays as it was.
C10_FailedStopKeepsPidfile ==
    [][(cpc = "stop_failed" /\ cpc' # cpc)
        => (stopRet' = <<exit_failure>> /\ pidfile' = pidfile)]_vars


(***************************************************************************)
(* The lines of `log`.                                                     *)
(***************************************************************************)
StartAction == "action: Starting"
StopAction == "action: Stopping"
IsAction(x) == x \in {StartAction, StopAction}
IsStatus(x) == x \in {StatusLine(TRUE), StatusLine(FALSE)}
IsDetail(x) == ~IsAction(x) /\ ~IsStatus(x)
                 /\ x \notin {ClearMark, PersistMark, PersistFailedMark}

\* Index of the action line that the line k of `log` follows, 0 if none.
Seg(k) == IF \E j \in 1..k : IsAction(log[j])
          THEN CHOOSE j \in 1..k : IsAction(log[j])
                                     /\ \A h \in (j + 1)..k : ~IsAction(log[h])
          ELSE 0
InStart(k) == Seg(k) # 0 /\ log[Seg(k)] = StartAction
InStop(k) == Seg(k) # 0 /\ log[Seg(k)] = StopAction

\* C11: within one start() or stop(), no status line precedes the PID-file
\* operation it reports on: the write of the daemon for start(), the
\* remove_pidfile of the launcher for stop().
C11_StatusNeverPrecedesMutation ==
    \A k, m \in 1..Len(log) :
        (k < m /\ Seg(k) = Seg(m) /\ IsStatus(log[k])) =>
            /\ InStart(k) => log[m] \notin {PersistMark, PersistFailedMark}
            /\ InStop(k) => log[m] # ClearMark

\* C11 as amended: in start() the status line follows the write of the
\* PID file, done or failed, and [ OK ] follows a write that was done; in
\* stop() every remove_pidfile of the launcher follows the status line.
C11_StartAfterPersistStopBeforeClear ==
    \A m \in 1..Len(log) :
        log[m] \in {PersistMark, PersistFailedMark, ClearMark, StatusLine(TRUE)} =>
            LET s == Seg(m)
                inStart == s # 0 /\ log[s] = StartAction
                inStop == s # 0 /\ log[s] = StopAction
            IN /\ (inStart /\ log[m] \in {PersistMark, PersistFailedMark}) =>
                     \A k \in s..m : ~IsStatus(log[k])
               /\ (inStart /\ log[m] = StatusLine(TRUE)) =>
                     \E k \in s..m : log[k] = PersistMark
               /\ (inStop /\ log[m] = ClearMark) =>
                     \E k \in s..m : IsStatus(log[k])

C11_Witness ==
    /\ verb = "restart" /\ Returned /\ ret = exit_success
    /\ entry.exists /\ stopRet = <<exit_success>>
    /\ \E k, m \in 1..Len(log) :
          /\ k < m /\ InStop(k) /\ log[k] = StatusLine(TRUE) /\ log[m] = ClearMark
          /\ Seg(k) = Seg(m)
    /\ \E k, m \in 1..Len(log) :
          /\ k < m /\ InStart(k) /\ log[k] = PersistMark /\ log[m] = StatusLine(TRUE)

\* The lines of kind P that follow the action line j and precede the next one.
SegLines(j, P(_)) == {k \in j..Len(log) : Seg(k) = j /\ P(log[k])}
\* The start() or stop() that printed the action line j has returned.
SegDone(j) == Returned \/ \E h \in (j + 1)..Len(log) : IsAction(log[h])

\* C12: every start() or stop() that has returned in the launcher has
\* logged exactly one status line after its action line.
C12_ExactlyOneStatusLine ==
    \A j \in 1..Len(log) :
        (IsAction(log[j]) /\ SegDone(j)) => Cardinality(SegLines(j, IsStatus)) = 1

\* C13: within one start() or stop(), every warning or failure detail line
\* comes after the status line: none stands between the action line and it.
C13_DetailsFollowStatus ==
    \A k \in 1..Len(log) :
        (IsDetail(log[k]) /\ Seg(k) # 0) =>
            \E h \in Seg(k)..k : IsStatus(log[h])

\* The daemon p has written its PID to the PID file, which still holds it.
Persisted(p) ==
    /\ proc[p] = "daemon"
    /\ dpc[p] \in {"persisted", "init_failed", "run", "reported"}
    /\ pidfile.exists /\ pidfile.content = Str(p)
\* This step is the os.kill of stop() that sends SIGKILL.
SigkillStep == cpc = "stop_loop" /\ sigs' # sigs /\ sigs'[Len(sigs')].sig = "KILL"

\* C14: whenever a daemon that persisted its PID exits, however it exits,
\* the PID file is cleared as part of that exit.
C14_ExitClearsPidfile ==
    [][\A p \in Pids : (Persisted(p) /\ proc'[p] = "none") => ~pidfile'.exists]_vars

\* C14 as amended: a daemon that leaves through the interpreter (run()
\* returns, sys.exit, also from the SIGTERM handler) clears the PID file in
\* its exit; one ended by the SIGKILL of stop() leaves the file as it is.
C14_ExitHookClearsUnlessKilled ==
    [][\A p \in Pids : (Persisted(p) /\ proc'[p] = "none") =>
          IF SigkillStep THEN pidfile' = pidfile ELSE ~pidfile'.exists]_vars

C14_Witness ==
    /\ verb = "start" /\ Returned /\ ret = exit_success /\ rcv = StatusByte(TRUE)
    /\ child \in Pids /\ proc[child] = "none" /\ entry = NoFile /\ ~pidfile.exists

\* What restart() does, as far as the launcher's records show: stop() comes
\* first; start() is entered exactly after stop() returned exit_success or
\* exit_no_action and its result is returned; exit_failure is returned
\* without a fork after stop() failed; the verb ends by returning an exit
\* code unless a signal of stop() ended the launcher itself.
BehavesAsRestart ==
    /\ cpc # "stop_begin" => (log # <<>> /\ log[1] = StopAction)
    /\ startRan => stopRet \in {<<exit_success>>, <<exit_no_action>>}
    /\ stopRet \in {<<exit_success>>, <<exit_no_action>>} =>
          startRan \/ cpc = "start_begin"
    /\ stopRet = <<exit_failure>> =>
          ~startRan /\ ~spawned /\ Returned /\ ret = exit_failure
    /\ cpc = "idle" =>
          /\ fin \in {"returned", "killed"}
          /\ fin = "returned" => stopRet # <<>> /\ (startRan => startRet = <<ret>>)

\* C15: by default reload() and force_reload() behave as restart(): the
\* same signals, PID-file effects, spawned process and return code.
C15_ReloadsAreRestart ==
    verb \in {"reload", "force_reload"} => BehavesAsRestart

\* C15 as amended: force_reload() behaves as restart(); reload() does
\* nothing: it sends no signal, leaves the PID file and the processes as
\* they are, forks nothing, logs nothing and returns no exit code.
C15_ForceReloadIsRestartReloadIsNothing ==
    [][/\ verb' = "force_reload" => BehavesAsRestart'
       /\ (verb = "reload" /\ cpc = "reload_body" /\ cpc' # cpc) =>
             /\ pidfile' = pidfile /\ proc' = proc /\ termPending' = termPending
             /\ sigs' = <<>> /\ log' = <<>> /\ ~spawned' /\ ~startRan'
             /\ cpc' = "idle" /\ fin' = "none"]_vars

C15_Witness ==
    /\ verb = "force_reload" /\ Returned /\ ret = exit_success
    /\ stopRet = <<exit_success>> /\ startRet = <<exit_success>> /\ spawned
    /\ Len(sigs) > 0 /\ entry.exists

\* restart() itself meets BehavesAsRestart.
RestartBehavesAsRestart == verb = "restart" => BehavesAsRestart

ControlVerbs == {"start", "stop", "restart", "try_restart", "reload", "force_reload"}
ExitCodes == {exit_success, exit_no_action, exit_failure}
\* The verb invoked last is over: it returned, or the launcher is gone.
VerbOver == cpc = "idle" /\ verb \in ControlVerbs

C17_ForkFailureFailsStart ==
    (initFail \in {"fork1", "fork2"}) ~>
        /\ startRet = <<exit_failure>>
        /\ Has(log, StatusLine(FALSE))
        /\ ~Has(log, PersistMark)

\* The processes a signal of stop() is for: the process or the group its
\* PID names; for -1 every process the launcher may signal.
Signalled == IF gpPid = -1 THEN Delivered(gpPid) ELSE Targets(gpPid)

SigkillWarning == "warning: Service terminated via SIGKILL"

\* C19: stop() that returned exit_success logged the SIGKILL warning if and
\* only if its SIGKILL was delivered: when the process was gone before it
\* (SIGKILL met "No such process"), there is no warning.
C19_WarningIffSigkillDelivered ==
    (verb = "stop" /\ Returned /\ ret = exit_success) =>
        (Has(log, SigkillWarning) <=>
            \E k \in 1..Len(sigs) : sigs[k].sig = "KILL" /\ sigs[k].res = "ok")

\* C20: when the process that the probe of get_pid found alive is gone at a
\* later signal of stop(), so that os.kill meets "No such process", stop()
\* goes to its success path: it returns exit_success, never exit_failure,
\* and the PID file is absent when it returns.
C20_MissingProcessIsStopped ==
    [][/\ (cpc = "stop_loop" /\ probed = "live" /\ sigs' # sigs
            /\ sigs'[Len(sigs')].res = "ESRCH") => cpc' = "stop_done"
       /\ (cpc = "stop_done" /\ cpc' # cpc) =>
             stopRet' = <<exit_success>> /\ ~pidfile'.exists]_vars

C20_Witness ==
    /\ verb = "stop" /\ Returned /\ ret = exit_success /\ ~pidfile.exists
    /\ probed = "live" /\ Len(sigs) = 1 /\ sigs[1].res = "ESRCH"
    /\ sigs[1].sig = "TERM" /\ entry.exists

\* The process whose PID get_pid read from the PID file exists.
RecordedAlive == gpPid \in Pids /\ proc[gpPid] # "none"

\* C21: with a PID read from the PID file, get_pid returns (pid, running)
\* and leaves the file as it is exactly when the recorded process is alive;
\* it returns (-1, stopped) with the file removed exactly when it is absent.
C21_ProbeTellsAliveFromAbsent ==
    [][(cpc = "gp_probe" /\ cpc' # cpc /\ gpPid > 0) =>
          IF RecordedAlive
          THEN gpPid' = gpPid /\ gpStatus' = status_running /\ pidfile' = pidfile
          ELSE gpPid' = -1 /\ gpStatus' = status_stopped /\ ~pidfile'.exists]_vars

\* The SIGTERM handler and the exit hook of the daemon p are registered.
Hooked(p) == proc[p] = "daemon" /\ dpc[p] \notin {"none", "forked"}
\* The steps of a daemon, in the order make_daemon and start() take them.
InitOrder ==
    {<<"none", "forked">>, <<"forked", "registered">>, <<"registered", "persisted">>,
     <<"persisted", "run">>, <<"run", "reported">>,
     <<"registered", "init_failed">>, <<"persisted", "init_failed">>}

\* C22: a daemon registers its SIGTERM handler and exit hook, then writes
\* its PID, then redirects the standard streams, then enters run(); the
\* PID file is written only by a daemon whose handler and hook are
\* registered, and it is not written again later.
C22_DaemonInitOrder ==
    [][/\ \A p \in Pids :
             (dpc'[p] # dpc[p] /\ dpc'[p] # "none") => <<dpc[p], dpc'[p]>> \in InitOrder
       /\ (pidfile' # pidfile /\ pidfile'.exists) =>
             \E p \in Pids : /\ Hooked(p) /\ dpc[p] = "registered"
                             /\ dpc'[p] \in {"persisted", "init_failed"}
       /\ \A p \in Pids :
             (dpc'[p] = "persisted" /\ dpc[p] # "persisted") =>
                 pidfile' = File(Str(p))]_vars

C22_Witness ==
    /\ cpc = "monitor" /\ ChildAlive /\ dpc[child] = "run" /\ Hooked(child)
    /\ pidfile = File(Str(child)) /\ Has(log, PersistMark) /\ statusPipe = <<>>

\* A record change submitted earlier is not yet committed.
SomePending == \E c \in 1..Len(changes) : changes[c] = "PENDING"

\* C23: while a record change submitted earlier is pending, the loop of
\* aws_dns.start issues no update_record request: a recheck that finds the
\* change pending goes back to sleep, and an update is submitted only when
\* no earlier change is pending.
C23_NoUpdateWhilePending ==
    [][/\ (lpc = "update_record" /\ Len(changes') > Len(changes)) => ~SomePending
       /\ (lpc = "sleep" /\ lpc' # lpc /\ change_pending) => ~SomePending]_vars

\* C24: every signal stop() sends goes to a positive PID that get_pid read
\* from the PID file and reported as running; none goes to the placeholder
\* -1 that get_pid returns with any other status.
C24_SignalsOnlyToReadPid ==
    \A k \in 1..Len(sigs) :
        /\ sigs[k].pid > 0
        /\ gpStatus = status_running

\* The daemons of the service that are alive.
Daemons == {p \in Pids : proc[p] = "daemon"}

\* C25: at most one daemon of the service is alive at any time, whatever
\* get_pid returned to start(): also when the PID file could not be read.
C25_AtMostOneDaemon == Cardinality(Daemons) <= 1

\* A daemon's exit hook removes the PID file in this step.
HookRemoves(p) ==
    /\ proc[p] = "daemon" /\ proc'[p] # "daemon"
    /\ pidfile.exists /\ ~pidfile'.exists

\* C26: the exit hook of a daemon removes the PID file only when the file
\* records the PID of that daemon; it never removes a file that records
\* another daemon that is still alive.
C26_HookRemovesOwnPidfileOnly ==
    [][\A p \in Pids : HookRemoves(p) => pidfile.content = PidText(p)]_vars

\* The second half of C26 alone: the PID file an exit hook removes does not
\* record another daemon that is alive.
C26_HookSparesLiveDaemon ==
    [][\A p \in Pids : HookRemoves(p) =>
          \A q \in Daemons \ {p} : pidfile.content # PidText(q)]_vars

=============================================================================
